---- MODULE Spec2Model ----
(***************************************************************************)
(* Model of the neumorphic-peripheral component library: the validation    *)
(* engine (validateValue, validatePasswordStrength) and the base component *)
(* lifecycle (construct, update, destroy) shared by all widgets.           *)
(*                                                                         *)
(* Strings the code inspects character by character (field values,         *)
(* passwords) are sequences of one-character strings; messages the code    *)
(* only passes around are TLA+ strings.  A value of type `string | null`   *)
(* is the empty sequence for null and a one-element sequence otherwise.    *)
(***************************************************************************)
EXTENDS Naturals, Integers, Sequences, FiniteSets, TLC

\* ------------------------------------------------------------------ bounds
\* Longest field value typed into validateValue ("a@a.a" needs five).
MaxLen == 5

\* Longest password given to validatePasswordStrength (the length point needs eight).
MaxPasswordLen == 8

\* ------------------------------------------------------- program constants
\* `password.length >= 8`: the length that earns the length point
MinPasswordLength == 8

VARIABLES
    value,      \* validateValue: the value argument (sequence of characters)
    ruleSet,    \* validateValue: the config argument (structured or function)
    result,     \* validateValue: the returned ValidationResult (plus call trace)
    vpc,        \* "input" while the arguments are being chosen, "done" after the call
    password,   \* validatePasswordStrength: the password argument
    strength,   \* validatePasswordStrength: the returned {score, feedback, strength}
    spc,        \* "input" while the password is typed, "done" after the call
    phase,      \* component: "none" before `new`, "live" once constructed, "failed" if `new` threw
    widget,     \* component: the class that was instantiated
    el,         \* the DOM object handed to the constructor: kind, classList, attributes, inline style
    attached,   \* listeners currently registered on window / the element (DOM side)
    docNodes,   \* auxiliary nodes the library added to the document
    rootVars,   \* theme whose --np-* custom properties are set on the document root
    _config,    \* BaseComponent._config
    _theme,     \* BaseComponent._theme
    _listeners, \* BaseComponent._listeners
    _destroyed, \* BaseComponent._destroyed
    currentTheme,   \* themes module: `let currentTheme`
    destroyEvents,  \* number of np:destroy events dispatched on the element
    lastOp,     \* the last public call made, its argument and how it ended
    mValue,     \* validation manager: the current value of each element on the page
    validationState,    \* ValidationManager.validationState (Map element -> result)
    errorElements,      \* ValidationManager.errorElements (Map element -> error node)
    mClasses,   \* validation manager: the classList of each element
    mgrOp,      \* validation manager: the last call made on it (or the last keystroke)
    adapter,    \* adapters: which adapter produced the validation function
    schema,     \* adapters: what the wrapped schema does when it is called
    adapterOut, \* adapters: what the call of the produced function ended with
    apc,        \* adapters: "input" before the produced function is called, "done" after
    page,       \* autoInit: the elements matching [data-np], in document order
    autoResult, \* autoInit: which elements got an instance, which were warned about, what was thrown
    autoPc,     \* autoInit: "ready" before np.autoInit() is called, "done" after
    destroyHandler, \* what the page's own np:destroy listener on the element does
    destroyLog, \* what that listener and the cleanup hook saw during the last destroy()
    instances,  \* theme subscribers: the component instances created on the page
    windowListeners,    \* theme subscribers: window's np:theme-change listeners, in registration order
    delivered,      \* theme subscribers: who handled the last theme change, and the theme each saw
    overrides,  \* createCustomTheme: the Partial<NeumorphicTheme> argument
    customOut,  \* createCustomTheme: the returned theme
    ctPc,       \* createCustomTheme: "input" before the call, "done" after
    shVariant,  \* shadow: the variant argument
    shTheme,    \* shadow: the theme the instance's theme was built from
    shIntensity, \* shadow: that theme's shadowIntensity, in hundredths
    shOut,      \* shadow: what createNeumorphicShadow and createShadowStyle returned
    shPc        \* shadow: "input" before the two calls, "done" after

validateVars == <<value, ruleSet, result, vpc>>
strengthVars == <<password, strength, spc>>
domVars == <<el, attached, docNodes, rootVars>>
instanceVars == <<_config, _theme, _listeners, _destroyed>>
lifeVars == <<phase, widget, domVars, instanceVars, currentTheme, destroyEvents, lastOp>>
managerVars == <<mValue, validationState, errorElements, mClasses, mgrOp>>
adapterVars == <<adapter, schema, adapterOut, apc>>
autoVars == <<page, autoResult, autoPc>>
notifyVars == <<destroyHandler, destroyLog>>
subVars == <<instances, windowListeners, delivered>>
customVars == <<overrides, customOut, ctPc>>
shadowVars == <<shVariant, shTheme, shIntensity, shOut, shPc>>
moreVars == <<notifyVars, subVars, customVars, shadowVars>>
extraVars == <<managerVars, adapterVars, autoVars, moreVars>>
otherThanManager == <<validateVars, strengthVars, lifeVars, adapterVars, autoVars, moreVars>>
otherThanAdapter == <<validateVars, strengthVars, lifeVars, managerVars, autoVars, moreVars>>
otherThanAuto == <<validateVars, strengthVars, lifeVars, managerVars, adapterVars, moreVars>>
vars == <<validateVars, strengthVars, lifeVars, extraVars>>

\* --------------------------------------------------------- option values
Null == <<>>
Some(x) == <<x>>
\* JavaScript truthiness of a `string | null`
Truthy(r) == r # Null /\ r[1] # ""

\* ------------------------------------------------------- character strings
Whitespace == {" "}
ValueAlphabet == {" ", "a", "@", "."}

StringsUpTo(alphabet, n) == UNION {[1..k -> alphabet] : k \in 0..n}

RECURSIVE TrimStart(_)
TrimStart(s) ==
    IF s = <<>> THEN s
    ELSE IF Head(s) \in Whitespace THEN TrimStart(Tail(s)) ELSE s

RECURSIVE TrimEnd(_)
TrimEnd(s) ==
    IF s = <<>> THEN s
    ELSE IF s[Len(s)] \in Whitespace THEN TrimEnd(SubSeq(s, 1, Len(s) - 1)) ELSE s

\* String.prototype.trim
Trim(s) == TrimEnd(TrimStart(s))

\* every character of s[from..to] is outside `excluded`, and the range is not empty
NonEmptyRunOutside(s, from, to, excluded) ==
    /\ from <= to
    /\ \A k \in from..to : s[k] \notin excluded

\* /^[^\s@]+@[^\s@]+\.[^\s@]+$/.test(email)
isValidEmail(email) ==
    \E i \in 1..Len(email) : \E j \in 1..Len(email) :
        /\ email[i] = "@"
        /\ email[j] = "."
        /\ NonEmptyRunOutside(email, 1, i - 1, Whitespace \cup {"@"})
        /\ NonEmptyRunOutside(email, i + 1, j - 1, Whitespace \cup {"@"})
        /\ NonEmptyRunOutside(email, j + 1, Len(email), Whitespace \cup {"@"})

\* regex.test(value) for the patterns a caller configures
Patterns == {"^a+$"}
RegexTest(regex, s) ==
    CASE regex = "^a+$" -> s # <<>> /\ \A k \in 1..Len(s) : s[k] = "a"

\* ------------------------------------------------ caller-supplied functions
\* ValidationFunction values a caller passes (as the rule set or in `custom`)
ValidationFunctions == {"rejectAt", "rejectDot", "blankMsg"}
Contains(s, c) == \E k \in 1..Len(s) : s[k] = c
CallFunction(fn, s) ==
    CASE fn = "rejectAt"  -> IF Contains(s, "@") THEN Some("No @ allowed") ELSE Null
      [] fn = "rejectDot" -> IF Contains(s, ".") THEN Some("No dot allowed") ELSE Null
      [] fn = "blankMsg"  -> Some("")

\* ------------------------------------------------------ built-in validators
validators_required(v) ==
    IF Trim(v) = <<>> THEN Some("This field is required") ELSE Null

validators_email(v) ==
    IF v # <<>> /\ ~isValidEmail(v)
    THEN Some("Please enter a valid email address") ELSE Null

validators_minLength(min, v) ==
    IF v # <<>> /\ Len(v) < min
    THEN Some("Must be at least " \o ToString(min) \o " characters") ELSE Null

validators_maxLength(max, v) ==
    IF v # <<>> /\ Len(v) > max
    THEN Some("Must be no more than " \o ToString(max) \o " characters") ELSE Null

validators_pattern(regex, v) ==
    IF v # <<>> /\ ~RegexTest(regex, v) THEN Some("Invalid format") ELSE Null

\* `if (error) errors.push(error)`
PushIf(errors, error) == IF Truthy(error) THEN Append(errors, error[1]) ELSE errors

\* config.custom.forEach(validator => { ... })
RECURSIVE CustomErrors(_, _, _)
CustomErrors(custom, v, errors) ==
    IF custom = <<>> THEN errors
    ELSE CustomErrors(Tail(custom), v, PushIf(errors, CallFunction(Head(custom), v)))

Result(errors, calls) ==
    [isValid |-> Len(errors) = 0, errors |-> errors, calls |-> calls]

\* Variant of EvaluateRules that returns as soon as the email rule has failed.
EvaluateRulesStopAfterEmail(v, config, errors0, calls0) ==
    LET e1 == IF config.email THEN PushIf(errors0, validators_email(v)) ELSE errors0
        c1 == IF config.email THEN Append(calls0, "email") ELSE calls0
        e2 == IF config.minLength # Null
              THEN PushIf(e1, validators_minLength(config.minLength[1], v)) ELSE e1
        c2 == IF config.minLength # Null THEN Append(c1, "minLength") ELSE c1
        e3 == IF config.maxLength # Null
              THEN PushIf(e2, validators_maxLength(config.maxLength[1], v)) ELSE e2
        c3 == IF config.maxLength # Null THEN Append(c2, "maxLength") ELSE c2
        e4 == IF config.pattern # Null
              THEN PushIf(e3, validators_pattern(config.pattern[1], v)) ELSE e3
        c4 == IF config.pattern # Null THEN Append(c3, "pattern") ELSE c3
    IN  IF e1 # errors0 THEN Result(e1, c1)
        ELSE Result(CustomErrors(config.custom, v, e4), c4 \o config.custom)

\* The rules evaluated after the empty-value checks, in source order.
\* `calls` lists the validators invoked, `errors` the messages pushed.
EvaluateRules(v, config, errors0, calls0) ==
    LET e1 == IF config.email THEN PushIf(errors0, validators_email(v)) ELSE errors0
        c1 == IF config.email THEN Append(calls0, "email") ELSE calls0
        e2 == IF config.minLength # Null
              THEN PushIf(e1, validators_minLength(config.minLength[1], v)) ELSE e1
        c2 == IF config.minLength # Null THEN Append(c1, "minLength") ELSE c1
        e3 == IF config.maxLength # Null
              THEN PushIf(e2, validators_maxLength(config.maxLength[1], v)) ELSE e2
        c3 == IF config.maxLength # Null THEN Append(c2, "maxLength") ELSE c2
        e4 == IF config.pattern # Null
              THEN PushIf(e3, validators_pattern(config.pattern[1], v)) ELSE e3
        c4 == IF config.pattern # Null THEN Append(c3, "pattern") ELSE c3
        e5 == CustomErrors(config.custom, v, e4)
        c5 == c4 \o config.custom
    IN  Result(e5, c5)

\* Variant of validateValue without the `value.trim() === ''` skip for optional fields.
validateValueNoEmptySkip(v, config) ==
    IF config.kind = "function"
    THEN Result(PushIf(<<>>, CallFunction(config.fn, v)), <<config.fn>>)
    ELSE
        LET reqError == IF config.required THEN validators_required(v) ELSE Null
            errors1  == PushIf(<<>>, reqError)
            calls1   == IF config.required THEN <<"required">> ELSE <<>>
        IN  IF Truthy(reqError) /\ Trim(v) = <<>>
            THEN [isValid |-> FALSE, errors |-> errors1, calls |-> calls1]
            ELSE EvaluateRules(v, config, errors1, calls1)

\* Variant of validateValue without the early return after a failed required check.
validateValueNoRequiredReturn(v, config) ==
    IF config.kind = "function"
    THEN Result(PushIf(<<>>, CallFunction(config.fn, v)), <<config.fn>>)
    ELSE
        LET reqError == IF config.required THEN validators_required(v) ELSE Null
            errors1  == PushIf(<<>>, reqError)
            calls1   == IF config.required THEN <<"required">> ELSE <<>>
        IN  IF Trim(v) = <<>>
            THEN [isValid |-> TRUE, errors |-> <<>>, calls |-> calls1]
            ELSE EvaluateRules(v, config, errors1, calls1)

\* validateValue(value, config)
validateValue(v, config) ==
    IF config.kind = "function"
    THEN Result(PushIf(<<>>, CallFunction(config.fn, v)), <<config.fn>>)
    ELSE
        LET reqError == IF config.required THEN validators_required(v) ELSE Null
            errors1  == PushIf(<<>>, reqError)
            calls1   == IF config.required THEN <<"required">> ELSE <<>>
        IN  IF Truthy(reqError) /\ Trim(v) = <<>>
            THEN [isValid |-> FALSE, errors |-> errors1, calls |-> calls1]
            ELSE IF Trim(v) = <<>>
            THEN [isValid |-> TRUE, errors |-> <<>>, calls |-> calls1]
            ELSE EvaluateRules(v, config, errors1, calls1)

\* --------------------------------------------------------------- rule sets
MinLengthArgs == {4}
MaxLengthArgs == {2}
CustomLists ==
    { <<>>, <<"rejectAt">>, <<"rejectAt", "rejectDot">>,
      <<"rejectDot", "rejectAt">>, <<"blankMsg", "rejectAt">> }

Optional(S) == {Null} \cup {Some(x) : x \in S}

\* `required` and `email` stand for the truthiness of the key: an absent key
\* and a false one take the same branch of `if (config.required)`.
StructuredRuleSets ==
    [ kind : {"config"}, fn : {"none"},
      required : BOOLEAN, email : BOOLEAN,
      minLength : Optional(MinLengthArgs), maxLength : Optional(MaxLengthArgs),
      pattern : Optional(Patterns), custom : CustomLists ]

FunctionRuleSets ==
    [ kind : {"function"}, fn : ValidationFunctions,
      required : {FALSE}, email : {FALSE},
      minLength : {Null}, maxLength : {Null}, pattern : {Null}, custom : {<<>>} ]

RuleSets == StructuredRuleSets \cup FunctionRuleSets

NoResult == [isValid |-> TRUE, errors |-> <<>>, calls |-> <<>>]

\* ------------------------------------------------------- password strength
UpperCase == {"A"}
LowerCase == {"a"}
Digits == {"1"}
PasswordAlphabet == {"a", "A", "1", "!"}

\* /[...]/.test(password): some character of the password is in the class
TestClass(p, class) == \E k \in 1..Len(p) : p[k] \in class
\* /[^A-Za-z0-9]/.test(password)
TestSpecial(p) == \E k \in 1..Len(p) : p[k] \notin (UpperCase \cup LowerCase \cup Digits)

\* Variant of Criterion that puts the message in front of the feedback list.
CriterionUnshift(acc, met, message) ==
    IF met THEN [acc EXCEPT !.score = @ + 1]
    ELSE [acc EXCEPT !.feedback = <<message>> \o @]

\* one `if (met) score += 1 else feedback.push(message)` step
Criterion(acc, met, message) ==
    IF met THEN [acc EXCEPT !.score = @ + 1]
    ELSE [acc EXCEPT !.feedback = Append(@, message)]

\* Variant of StrengthLabel with the weak/fair boundary one too low.
StrengthLabelLowBoundary(score) ==
    IF score < 2 THEN "weak"
    ELSE IF score <= 3 THEN "fair"
    ELSE IF score = 4 THEN "good"
    ELSE "strong"

\* `if (score <= 2) ... else if (score === 3) ... else if (score === 4) ... else`
StrengthLabel(score) ==
    IF score <= 2 THEN "weak"
    ELSE IF score = 3 THEN "fair"
    ELSE IF score = 4 THEN "good"
    ELSE "strong"

\* validatePasswordStrength(password)
validatePasswordStrength(p) ==
    LET a0 == [score |-> 0, feedback |-> <<>>]
        a1 == Criterion(a0, Len(p) >= MinPasswordLength, "Use at least 8 characters")
        a2 == Criterion(a1, TestClass(p, UpperCase), "Add uppercase letters")
        a3 == Criterion(a2, TestClass(p, LowerCase), "Add lowercase letters")
        a4 == Criterion(a3, TestClass(p, Digits), "Add numbers")
        a5 == Criterion(a4, TestSpecial(p), "Add special characters")
    IN  [score |-> a5.score, feedback |-> a5.feedback, strength |-> StrengthLabel(a5.score)]

NoStrength == [score |-> 0, feedback |-> <<>>, strength |-> "weak"]

IdleStrength ==
    /\ password = <<>>
    /\ strength = NoStrength
    /\ spc = "idle"

\* ------------------------------------------------------- component lifecycle
\* The classes a caller can instantiate.  "Custom" is a caller-written concrete
\* subclass of the exported abstract BaseComponent whose init() is
\* applyBaseStyles() and which inherits bindEvents, onUpdate and onDestroy.
Widgets == {"Card", "Input", "Password", "Textarea", "Toggle", "Button", "Custom"}

\* What the caller can pass as `element`; "object" is a value that is not an HTMLElement.
ElementKinds == {"div", "input:text", "input:checkbox", "input:radio", "textarea", "button", "object"}

\* element instanceof HTMLElement
isElement(k) == k # "object"

\* element instanceof HTMLInputElement
InstanceOfInput(k) == k \in {"input:text", "input:checkbox", "input:radio"}

\* theme presets (strings) and theme objects
ThemePresets == {"light", "dark"}
ThemeObjects == {"lightTheme", "darkTheme", "customTheme"}
themes(preset) == IF preset = "light" THEN "lightTheme" ELSE "darkTheme"
\* typeof theme === 'string'
IsString(t) == t \in ThemePresets

\* BaseComponentConfig: every key is optional
ThemeValues == ThemePresets \cup {"customTheme"}
ClassNames == {"x", "y"}
Configs == [theme : Optional(ThemeValues), className : Optional(ClassNames), disabled : Optional(BOOLEAN)]
NoConfig == [theme |-> Null, className |-> Null, disabled |-> Null]

\* { ...a, ...b }
Spread(a, b) == [k \in DOMAIN a |-> IF b[k] # Null THEN b[k] ELSE a[k]]

NoStyle == [surface |-> "none", boxShadow |-> ""]
FreshElement(k) == [kind |-> k, classes |-> {}, attrs |-> {}, style |-> NoStyle]

Range(s) == {s[i] : i \in 1..Len(s)}

\* the instance together with the DOM it touches, as seen inside a method
This ==
    [el |-> el, attached |-> attached, config |-> _config, theme |-> _theme,
     listeners |-> _listeners, destroyed |-> _destroyed, events |-> destroyEvents,
     outcome |-> "ok"]

\* the subclass constructor's own check, made before super()
KindCheckAfterSuper(w, k) == FALSE

KindError(w, k) ==
    CASE w \in {"Input", "Password"} -> ~InstanceOfInput(k)
      [] w = "Textarea" -> ~(k = "textarea")
      [] w = "Button" -> ~(k = "button")
      [] w = "Toggle" -> ~InstanceOfInput(k) \/ k \notin {"input:checkbox", "input:radio"}
      [] OTHER -> FALSE

\* BaseComponent.addEventListener
addEventListener(this, target, event) ==
    LET l == [target |-> target, event |-> event, id |-> Len(this.listeners) + 1]
    IN  [this EXCEPT !.attached = @ \cup {l}, !.listeners = Append(@, l)]

\* BaseComponent.applyBaseStyles
applyBaseStyles(this) ==
    [this EXCEPT
        !.el.classes = @ \cup {"np-component"}
                         \cup (IF this.config.className # Null THEN {this.config.className[1]} ELSE {}),
        !.el.style.surface = this.theme]

\* BaseComponent.onThemeChange
onThemeChange(this) == applyBaseStyles(this)

\* BaseComponent.setDisabled
setDisabled(this, disabled) ==
    [this EXCEPT
        !.config.disabled = Some(disabled),
        !.el.attrs = IF disabled THEN @ \cup {"disabled", "aria-disabled"}
                                 ELSE @ \ {"disabled", "aria-disabled"},
        !.el.classes = IF disabled THEN @ \cup {"np-disabled"} ELSE @ \ {"np-disabled"}]

\* BaseComponent.bindEvents
bindEvents(this) ==
    LET s == addEventListener(this, "window", "np:theme-change")
    IN  IF s.config.disabled = Some(TRUE) THEN setDisabled(s, TRUE) ELSE s

\* the handler bindEvents registers for np:theme-change
ThemeChangeHandler(this, cur) ==
    IF this.config.theme # Null /\ IsString(this.config.theme[1])
    THEN onThemeChange([this EXCEPT !.theme = cur])
    ELSE this

\* init() of each class, up to the point where it returns or throws.  The six
\* library widgets read their own config object (_cardConfig, _inputConfig, ...)
\* inside init(), which runs from super() before the subclass constructor has
\* assigned it, so the read throws a TypeError after the styles set so far.
init(this, w) ==
    LET s == applyBaseStyles(this)
    IN  CASE w = "Custom" -> s
          [] w = "Card" ->
                [s EXCEPT !.el.classes = @ \cup {"np-card"}, !.outcome = "TypeError"]
          [] w \in {"Input", "Password"} ->
                [s EXCEPT !.el.classes = @ \cup {"np-input"}, !.el.style.boxShadow = "inset",
                          !.outcome = "TypeError"]
          [] w = "Textarea" ->
                [s EXCEPT !.el.classes = @ \cup {"np-textarea"}, !.el.style.boxShadow = "inset",
                          !.outcome = "TypeError"]
          [] w = "Button" ->
                [s EXCEPT !.el.classes = @ \cup {"np-button"}, !.outcome = "TypeError"]
          [] w = "Toggle" ->
                [s EXCEPT !.outcome = "TypeError"]

\* BaseComponent constructor
BaseConstructor(this, w, config, cur) ==
    IF ~isElement(this.el.kind)
    THEN [this EXCEPT !.outcome = "Error: Invalid element"]
    ELSE
        LET s0 == [this EXCEPT
                      !.config = config,
                      !.theme = IF config.theme # Null /\ ~IsString(config.theme[1])
                                THEN config.theme[1] ELSE cur]
            s1 == init(s0, w)
        IN  IF s1.outcome # "ok" THEN s1 ELSE bindEvents(s1)

\* new Widget(element, config)
Constructor(this, w, config, cur) ==
    IF KindError(w, this.el.kind)
    THEN [this EXCEPT !.outcome = "Error: wrong element kind"]
    ELSE BaseConstructor(this, w, config, cur)

\* BaseComponent.onUpdate (not overridden by Custom)
onUpdate(this, newConfig, oldConfig) == this

\* BaseComponent.update past its destroyed guard
applyUpdate(this, newConfig, cur) ==
    LET oldConfig == this.config
        s0 == [this EXCEPT !.config = Spread(oldConfig, newConfig)]
        s1 == IF newConfig.theme # Null /\ newConfig.theme # oldConfig.theme
              THEN onThemeChange([s0 EXCEPT !.theme = IF IsString(newConfig.theme[1])
                                                     THEN cur ELSE newConfig.theme[1]])
              ELSE s0
        s2 == IF newConfig.disabled # Null /\ newConfig.disabled # oldConfig.disabled
              THEN setDisabled(s1, newConfig.disabled[1])
              ELSE s1
        s3 == IF newConfig.className # oldConfig.className
              THEN [s2 EXCEPT !.el.classes =
                        (@ \ (IF oldConfig.className # Null THEN {oldConfig.className[1]} ELSE {}))
                           \cup (IF newConfig.className # Null THEN {newConfig.className[1]} ELSE {})]
              ELSE s2
    IN  onUpdate(s3, newConfig, oldConfig)

updateIgnoringDestroyed(this, newConfig, cur) == applyUpdate(this, newConfig, cur)

\* BaseComponent.update
update(this, newConfig, cur) ==
    IF this.destroyed
    THEN [this EXCEPT !.outcome = "warned"]
    ELSE applyUpdate(this, newConfig, cur)

\* BaseComponent.onDestroy (not overridden by Custom)
onDestroy(this) == this

\* BaseComponent.destroy past its destroyed guard
teardown(this) ==
    LET s0 == [this EXCEPT !.attached = @ \ Range(this.listeners), !.listeners = <<>>]
        s1 == [s0 EXCEPT !.el.classes =
                  (@ \ {"np-component"})
                     \ (IF this.config.className # Null THEN {this.config.className[1]} ELSE {})]
        s2 == [s1 EXCEPT !.events = @ + 1]
        s3 == onDestroy(s2)
    IN  [s3 EXCEPT !.destroyed = TRUE]

destroyIgnoringDestroyed(this) == teardown(this)

\* BaseComponent.destroy
destroy(this) ==
    IF this.destroyed
    THEN [this EXCEPT !.outcome = "returned early"]
    ELSE teardown(this)

\* BaseComponent `get config()`: a copy of _config; no widget overrides it.
\* The keys it reports are the keys that hold a value.
get_config(this) == {k \in DOMAIN this.config : this.config[k] # Null}

NoOp == [op |-> "none", config |-> NoConfig, theme |-> "", outcome |-> "ok"]

IdleLife ==
    /\ phase = "idle"
    /\ widget = "none"
    /\ el = FreshElement("div")
    /\ attached = {}
    /\ docNodes = {}
    /\ rootVars = "lightTheme"
    /\ _config = NoConfig
    /\ _theme = "none"
    /\ _listeners = <<>>
    /\ _destroyed = FALSE
    /\ currentTheme = "lightTheme"
    /\ destroyEvents = 0
    /\ lastOp = NoOp

\* ------------------------------------------------------ validation manager
\* The elements a page hands to globalValidationManager, the values typed
\* into them and the rule sets they are validated against.
Elements == {"e1", "e2"}
ManagerValues == {<<>>, <<"a">>}
RequiredOnly ==
    [kind |-> "config", fn |-> "none", required |-> TRUE, email |-> FALSE,
     minLength |-> Null, maxLength |-> Null, pattern |-> Null, custom |-> <<>>]
AtLeastFour ==
    [kind |-> "config", fn |-> "none", required |-> FALSE, email |-> FALSE,
     minLength |-> Some(4), maxLength |-> Null, pattern |-> Null, custom |-> <<>>]
ManagerConfigs == {RequiredOnly, AtLeastFour}

\* the ValidationResult object validateValue hands back
ValidationResult(r) == [isValid |-> r.isValid, errors |-> r.errors]

\* the manager instance, as seen inside one of its methods
Manager ==
    [validationState |-> validationState, errorElements |-> errorElements, classes |-> mClasses]

\* ValidationManager.removeErrorDisplay
removeErrorDisplay(m, e) ==
    IF m.errorElements[e] # Null
    THEN [m EXCEPT !.errorElements[e] = Some([display |-> "none", text |-> ""])]
    ELSE m

\* ValidationManager.showErrorDisplay
showErrorDisplay(m, e, errorMessage) ==
    [m EXCEPT !.errorElements[e] = Some([display |-> "block", text |-> errorMessage])]

\* ValidationManager.updateErrorDisplay
updateErrorDisplay(m, e, r) ==
    IF r.isValid
    THEN [removeErrorDisplay(m, e) EXCEPT !.classes[e] = @ \ {"np-error"}]
    ELSE [showErrorDisplay(m, e, r.errors[1]) EXCEPT !.classes[e] = @ \cup {"np-error"}]

\* ValidationManager.validate
ValidationManager_validate(m, e, config, v) ==
    LET r == ValidationResult(validateValue(v, config))
    IN  updateErrorDisplay([m EXCEPT !.validationState[e] = Some(r)], e, r)

ValidationManager_clearValidationKeepsState(m, e) == removeErrorDisplay(m, e)

\* ValidationManager.clearValidation
ValidationManager_clearValidation(m, e) ==
    removeErrorDisplay([m EXCEPT !.validationState[e] = Null], e)

\* ValidationManager.getValidationState: `this.validationState.get(element) || null`
ValidationManager_getValidationState(m, e) == m.validationState[e]

\* ValidationManager.destroy
ValidationManager_destroy(m) ==
    [m EXCEPT !.validationState = [e \in Elements |-> Null],
              !.errorElements = [e \in Elements |-> Null]]

NoManagerOp == [op |-> "none", el |-> "none", config |-> Null]

IdleManager ==
    /\ mValue = [e \in Elements |-> <<>>]
    /\ validationState = [e \in Elements |-> Null]
    /\ errorElements = [e \in Elements |-> Null]
    /\ mClasses = [e \in Elements |-> {}]
    /\ mgrOp = NoManagerOp

\* ------------------------------------------------------ schema adapters
\* The message a schema library attaches to one issue: absent (undefined),
\* the empty string, or a text.
IssueMessages == {Null, Some(""), Some("Too short")}
MaxIssues == 2
IssueLists == UNION {[1..n -> IssueMessages] : n \in 0..MaxIssues}

\* What a schema call produces when it does not accept the value: an error
\* object with or without a structured list (zod `errors`, joi `details`,
\* yup `inner`) and with or without a `message`; or, when thrown, any value
\* at all, of which `undefined` is the one that is not an object.
ErrorObjects ==
    [obj : {TRUE}, list : {Null} \cup {Some(l) : l \in IssueLists},
     message : {Null, Some(""), Some("Bad format")}]
UndefinedError == [obj |-> FALSE, list |-> Null, message |-> Null]
NoError == UndefinedError

\* the behaviours of a schema: it accepts the value, it reports an error the
\* way its library documents (zod, yup and joi's validateAsync throw/reject;
\* joi's validate returns {error}), or the call itself throws
SchemaBehaviours ==
    {[kind |-> "accepts", error |-> NoError]}
        \cup [kind : {"rejects"}, error : ErrorObjects]
        \cup [kind : {"throws"}, error : ErrorObjects \cup {UndefinedError}]

Adapters ==
    {"zodAdapter", "zodAdapterDetailed", "joiAdapter", "joiAdapterDetailed", "joiAdapterAsync",
     "yupAdapter", "yupAdapterDetailed", "yupAdapterAsync"}

\* what a call of an adapter-produced function ends with
RetNull == [tag |-> "null", text |-> "", isValid |-> TRUE, errors |-> <<>>]
RetUndefined == [tag |-> "undefined", text |-> "", isValid |-> TRUE, errors |-> <<>>]
RetString(m) == [tag |-> "string", text |-> m, isValid |-> FALSE, errors |-> <<>>]
RetResult(isValid, errors) == [tag |-> "result", text |-> "", isValid |-> isValid, errors |-> errors]
Threw == [tag |-> "threw", text |-> "", isValid |-> FALSE, errors |-> <<>>]
NoOutput == [tag |-> "none", text |-> "", isValid |-> TRUE, errors |-> <<>>]

\* a JavaScript `string | undefined` as a return value
RetValue(m) == IF m = Null THEN RetUndefined ELSE RetString(m[1])

\* zodAdapter
zodAdapter(s) ==
    IF s.kind = "accepts" THEN RetNull
    ELSE IF s.error.obj /\ s.error.list # Null /\ Len(s.error.list[1]) > 0
         THEN RetValue(s.error.list[1][1])
         ELSE RetString("Invalid value")

\* zodAdapterDetailed
zodAdapterDetailed(s) ==
    IF s.kind = "accepts" THEN RetResult(TRUE, <<>>)
    ELSE IF s.error.obj /\ s.error.list # Null
         THEN RetResult(FALSE, s.error.list[1])
         ELSE RetResult(FALSE, <<Some("Invalid value")>>)

\* joiAdapter: `result.error.details[0]?.message || 'Invalid value'`, no try/catch
joiAdapter(s) ==
    CASE s.kind = "accepts" -> RetNull
      [] s.kind = "throws" -> Threw
      [] s.kind = "rejects" ->
            IF s.error.list = Null THEN Threw
            ELSE LET first == IF Len(s.error.list[1]) > 0 THEN s.error.list[1][1] ELSE Null
                 IN  IF Truthy(first) THEN RetString(first[1]) ELSE RetString("Invalid value")

\* joiAdapterDetailed: `result.error.details.map(...)`, no try/catch
joiAdapterDetailed(s) ==
    CASE s.kind = "accepts" -> RetResult(TRUE, <<>>)
      [] s.kind = "throws" -> Threw
      [] s.kind = "rejects" ->
            IF s.error.list = Null THEN Threw ELSE RetResult(FALSE, s.error.list[1])

\* the catch block shared by joiAdapterAsync, yupAdapterDetailed and yupAdapterAsync
CollectErrors(error) ==
    IF ~error.obj THEN Threw
    ELSE IF error.list # Null THEN RetResult(FALSE, error.list[1])
    ELSE IF Truthy(error.message) THEN RetResult(FALSE, <<error.message>>)
    ELSE RetResult(FALSE, <<Some("Invalid value")>>)

\* joiAdapterAsync (the promise it returns: resolved with a result, or rejected)
joiAdapterAsync(s) ==
    IF s.kind = "accepts" THEN RetResult(TRUE, <<>>) ELSE CollectErrors(s.error)

\* yupAdapter
yupAdapter(s) ==
    IF s.kind = "accepts" THEN RetNull
    ELSE IF ~s.error.obj THEN Threw
    ELSE IF Truthy(s.error.message) THEN RetString(s.error.message[1])
    ELSE RetString("Invalid value")

\* yupAdapterDetailed
yupAdapterDetailed(s) ==
    IF s.kind = "accepts" THEN RetResult(TRUE, <<>>) ELSE CollectErrors(s.error)

\* yupAdapterAsync
yupAdapterAsync(s) ==
    IF s.kind = "accepts" THEN RetResult(TRUE, <<>>) ELSE CollectErrors(s.error)

\* calling the function that adapter `a` made from a schema behaving as `s`
CallAdapted(a, s) ==
    CASE a = "zodAdapter" -> zodAdapter(s)
      [] a = "zodAdapterDetailed" -> zodAdapterDetailed(s)
      [] a = "joiAdapter" -> joiAdapter(s)
      [] a = "joiAdapterDetailed" -> joiAdapterDetailed(s)
      [] a = "joiAdapterAsync" -> joiAdapterAsync(s)
      [] a = "yupAdapter" -> yupAdapter(s)
      [] a = "yupAdapterDetailed" -> yupAdapterDetailed(s)
      [] a = "yupAdapterAsync" -> yupAdapterAsync(s)

IdleAdapter ==
    /\ adapter = "zodAdapter"
    /\ schema = [kind |-> "accepts", error |-> NoError]
    /\ adapterOut = NoOutput
    /\ apc = "idle"

\* ---------------------------------------------------------------- autoInit
\* Longest list of [data-np] elements on the page.
MaxMarked == 2

\* the values of data-np the switch knows, and one it does not
ComponentNames == {"card", "input", "password", "button", "textarea", "toggle", "chip"}

\* data-np-config: absent, valid JSON ({"className": "x"}) or malformed JSON
ConfigAttrs == {"absent", "valid", "malformed"}

MarkedElements == [component : ComponentNames, configAttr : ConfigAttrs]
Pages == UNION {[1..n -> MarkedElements] : n \in 1..MaxMarked}

\* the class a factory (np.card, np.input, ...) instantiates
WidgetOf(component) ==
    CASE component = "card" -> "Card"
      [] component = "input" -> "Input"
      [] component = "password" -> "Password"
      [] component = "button" -> "Button"
      [] component = "textarea" -> "Textarea"
      [] component = "toggle" -> "Toggle"

\* the element a page author marks for the component
ElementFor(component) ==
    CASE component \in {"input", "password"} -> FreshElement("input:text")
      [] component = "button" -> FreshElement("button")
      [] component = "textarea" -> FreshElement("textarea")
      [] component = "toggle" -> FreshElement("input:checkbox")
      [] OTHER -> FreshElement("div")

\* `let config = {}; if (configAttr) { try { JSON.parse } catch { warn } }`
ParsedConfig(configAttr) ==
    IF configAttr = "valid" THEN [NoConfig EXCEPT !.className = Some("x")] ELSE NoConfig

\* `new Widget(element, config)` on an element not yet touched by the library
NewInstance(component, config, cur) ==
    Constructor([el |-> ElementFor(component), attached |-> {}, config |-> NoConfig,
                 theme |-> "none", listeners |-> <<>>, destroyed |-> FALSE, events |-> 0,
                 outcome |-> "ok"],
                WidgetOf(component), config, cur)

NoAutoResult == [initialised |-> {}, warned |-> {}, thrown |-> Null]

\* elements.forEach(element => { ... }) from element i on: an exception thrown
\* by a factory is not caught and ends the loop
RECURSIVE autoInitFrom(_, _, _, _)
autoInitFrom(elements, i, acc, cur) ==
    IF i > Len(elements) THEN acc
    ELSE
        LET e == elements[i]
            a1 == IF e.configAttr = "malformed"
                  THEN [acc EXCEPT !.warned = @ \cup {i}] ELSE acc
        IN  IF e.component = "chip" THEN autoInitFrom(elements, i + 1, a1, cur)
            ELSE
                LET s == NewInstance(e.component, ParsedConfig(e.configAttr), cur)
                IN  IF s.outcome = "ok"
                    THEN autoInitFrom(elements, i + 1,
                                      [a1 EXCEPT !.initialised = @ \cup {i}], cur)
                    ELSE [a1 EXCEPT !.thrown = Some(s.outcome)]

\* np.autoInit()
autoInit(elements, cur) == autoInitFrom(elements, 1, NoAutoResult, cur)

IdleAuto ==
    /\ page = <<>>
    /\ autoResult = NoAutoResult
    /\ autoPc = "idle"

\* ------------------------------------------------ destroy notification
\* Nested calls the JavaScript stack has room for before a further call
\* throws RangeError.
MaxStackDepth == 2

\* What a listener the page registered on the element for np:destroy does:
\* nothing of interest, call instance.destroy(), or call instance.update(...).
DestroyHandlers == {"none", "destroy", "update"}

\* the config the "update" listener passes
HandlerConfig == [NoConfig EXCEPT !.className = Some("y")]

\* what can be seen of the instance and its element at one point of destroy()
Seen(at, this) ==
    [at |-> at, attached |-> this.attached, listeners |-> Len(this.listeners),
     classes |-> this.el.classes, events |-> this.events, destroyed |-> this.destroyed]

\* `this._listeners.forEach(... removeEventListener ...); this._listeners = []`
removeListeners(this) ==
    [this EXCEPT !.attached = @ \ Range(this.listeners), !.listeners = <<>>]

\* `classList.remove('np-component')` and of the custom className
stripClasses(this) ==
    [this EXCEPT !.el.classes =
        (@ \ {"np-component"})
           \ (IF this.config.className # Null THEN {this.config.className[1]} ELSE {})]

\* destroy() with the cleanup hook called before the notification is dispatched
RECURSIVE destroyHookFirst(_, _, _, _, _)
destroyHookFirst(this, log, h, depth, cur) ==
    IF this.destroyed
    THEN [s |-> [this EXCEPT !.outcome = "returned early"], log |-> log]
    ELSE
        LET s1 == stripClasses(removeListeners(this))
            s2 == onDestroy(s1)
            l2 == Append(log, Seen("hook", s1))
            s3 == [s2 EXCEPT !.events = @ + 1]
            l3 == Append(l2, Seen("event", s3))
            r  == CASE h = "none" -> [s |-> s3, log |-> l3]
                    [] h = "update" -> [s |-> update(s3, HandlerConfig, cur), log |-> l3]
                    [] h = "destroy" ->
                        IF depth = 0
                        THEN [s |-> s3, log |-> Append(l3, Seen("RangeError", s3))]
                        ELSE destroyHookFirst(s3, l3, h, depth - 1, cur)
        IN  [s |-> [r.s EXCEPT !.destroyed = TRUE, !.outcome = "ok"], log |-> r.log]

\* BaseComponent.destroy with the page's np:destroy listener on the element.
\* emit() dispatches synchronously, so the listener runs inside destroy(),
\* before onDestroy and before _destroyed is set; an exception thrown in a
\* listener (the RangeError of an exhausted stack included) is reported by
\* dispatchEvent and does not reach destroy().
RECURSIVE destroyNotifying(_, _, _, _, _)
destroyNotifying(this, log, h, depth, cur) ==
    IF this.destroyed
    THEN [s |-> [this EXCEPT !.outcome = "returned early"], log |-> log]
    ELSE
        LET s1 == stripClasses(removeListeners(this))
            s2 == [s1 EXCEPT !.events = @ + 1]
            l2 == Append(log, Seen("event", s2))
            r  == CASE h = "none" -> [s |-> s2, log |-> l2]
                    [] h = "update" -> [s |-> update(s2, HandlerConfig, cur), log |-> l2]
                    [] h = "destroy" ->
                        IF depth = 0
                        THEN [s |-> s2, log |-> Append(l2, Seen("RangeError", s2))]
                        ELSE destroyNotifying(s2, l2, h, depth - 1, cur)
            s3 == onDestroy(r.s)
            l3 == Append(r.log, Seen("hook", s3))
        IN  [s |-> [s3 EXCEPT !.destroyed = TRUE, !.outcome = "ok"], log |-> l3]

IdleNotify ==
    /\ destroyHandler = "none"
    /\ destroyLog = <<>>

\* ------------------------------------------------------ theme subscribers
InstanceIds == {"i1", "i2"}

\* the `theme` a caller configures an instance with: none, a preset name, an object
SubscriberThemes == {Null, Some("dark"), Some("customTheme")}

\* an instance that has not been created, and the div it will be created on
NotCreated ==
    [el |-> FreshElement("div"), attached |-> {}, config |-> NoConfig, theme |-> "none",
     listeners |-> <<>>, destroyed |-> FALSE, events |-> 0, outcome |-> "none"]

Live(s) == s.outcome # "none" /\ ~s.destroyed

\* the themes module and what hangs on window, as seen inside setTheme
ThemesModule ==
    [currentTheme |-> currentTheme, rootVars |-> rootVars, instances |-> instances,
     delivered |-> <<>>]

\* window.dispatchEvent(new CustomEvent('np:theme-change')): the listeners
\* run one after the other, in registration order, before dispatchEvent
\* returns; each instance's handler reads getCurrentTheme()
RECURSIVE dispatchThemeChange(_, _)
dispatchThemeChange(m, ids) ==
    IF ids = <<>> THEN m
    ELSE
        LET i == Head(ids)
            m1 == [m EXCEPT
                     !.instances[i] = ThemeChangeHandler(@, m.currentTheme),
                     !.delivered = Append(@, [id |-> i, saw |-> m.currentTheme])]
        IN  dispatchThemeChange(m1, Tail(ids))

\* a setTheme that dispatches the event before it assigns currentTheme
setThemeDispatchFirst(m, theme, ids) ==
    LET m1 == dispatchThemeChange(m, ids)
        cur == IF IsString(theme) THEN themes(theme) ELSE theme
    IN  [m1 EXCEPT !.currentTheme = cur, !.rootVars = cur]

\* themes module: setTheme
setTheme(m, theme, ids) ==
    LET cur == IF IsString(theme) THEN themes(theme) ELSE theme
        m1 == [m EXCEPT !.currentTheme = cur]
        m2 == [m1 EXCEPT !.rootVars = m1.currentTheme]
    IN  dispatchThemeChange(m2, ids)

\* Array/EventTarget removal of one listener
RECURSIVE Without(_, _)
Without(ids, i) ==
    IF ids = <<>> THEN <<>>
    ELSE IF Head(ids) = i THEN Without(Tail(ids), i)
    ELSE <<Head(ids)>> \o Without(Tail(ids), i)

IdleSubscribers ==
    /\ instances = [i \in InstanceIds |-> NotCreated]
    /\ windowListeners = <<>>
    /\ delivered = <<>>

\* ------------------------------------------------------------ theme objects
\* An object is a function from its keys; a Partial<...> has fewer keys.
EmptyObject == [k \in {} |-> k]

\* { ...a, ...b }
ObjectSpread(a, b) ==
    [k \in DOMAIN a \cup DOMAIN b |-> IF k \in DOMAIN b THEN b[k] ELSE a[k]]

\* `o.k` spread with `...`: an absent (undefined) value spreads as nothing
SpreadOf(o, k) == IF k \in DOMAIN o THEN o[k] ELSE EmptyObject

\* theme intensities in hundredths: 0.15 is 15
Hundredths == 100

\* lightTheme, darkTheme and a theme object a caller built
ThemeRecord(name) ==
    CASE name = "lightTheme" ->
            [colors |-> [surface |-> "#f0f0f3", text |-> "#333333",
                         shadow |-> [light |-> "#ffffff", dark |-> "#d1d9e6"]],
             borderRadius |-> "12px", shadowIntensity |-> 15,
             animation |-> [duration |-> "0.2s", easing |-> "cubic-bezier(0.4, 0, 0.2, 1)"]]
      [] name = "darkTheme" ->
            [colors |-> [surface |-> "#2d3748", text |-> "#f7fafc",
                         shadow |-> [light |-> "#4a5568", dark |-> "#1a202c"]],
             borderRadius |-> "12px", shadowIntensity |-> 20,
             animation |-> [duration |-> "0.2s", easing |-> "cubic-bezier(0.4, 0, 0.2, 1)"]]
      [] OTHER ->
            [colors |-> [surface |-> "#e0e5ec", text |-> "#111111",
                         shadow |-> [light |-> "#fafafa", dark |-> "#a3b1c6"]],
             borderRadius |-> "4px", shadowIntensity |-> 50,
             animation |-> [duration |-> "0.5s", easing |-> "linear"]]

\* the object with the keys ks of `full`
PartialOver(full, ks) == [k \in ks |-> full[k]]

\* the values a caller overrides with
OverrideShadow == [light |-> "#eeeeee", dark |-> "#222222"]
OverrideAnimation == [duration |-> "1s", easing |-> "ease-in"]
ShadowOverrides == {PartialOver(OverrideShadow, ks) : ks \in SUBSET DOMAIN OverrideShadow}
AnimationOverrides == {PartialOver(OverrideAnimation, ks) : ks \in SUBSET DOMAIN OverrideAnimation}
ColorOverrides ==
    {ObjectSpread(c, s) :
        c \in {EmptyObject, [surface |-> "#123456"]},
        s \in {EmptyObject} \cup {[shadow |-> sh] : sh \in ShadowOverrides}}

\* the Partial<NeumorphicTheme> values a caller passes to createCustomTheme
ThemeOverrides ==
    {ObjectSpread(ObjectSpread(r, c), a) :
        r \in {EmptyObject, [borderRadius |-> "0px"]},
        c \in {EmptyObject} \cup {[colors |-> x] : x \in ColorOverrides},
        a \in {EmptyObject} \cup {[animation |-> x] : x \in AnimationOverrides}}

\* a createCustomTheme that merges the top level only
createCustomThemeShallow(cur, o) == ObjectSpread(cur, o)

\* themes module: createCustomTheme
createCustomTheme(cur, o) ==
    LET colors == ObjectSpread(
                    ObjectSpread(cur.colors, SpreadOf(o, "colors")),
                    [shadow |-> ObjectSpread(cur.colors.shadow,
                                             SpreadOf(SpreadOf(o, "colors"), "shadow"))])
        animation == ObjectSpread(cur.animation, SpreadOf(o, "animation"))
    IN  ObjectSpread(ObjectSpread(cur, o), [colors |-> colors, animation |-> animation])

IdleCustom ==
    /\ overrides = EmptyObject
    /\ customOut = EmptyObject
    /\ ctPc = "idle"

\* ------------------------------------------------------------ shadow formula
ShadowVariants == {"raised", "inset", "flat"}

\* shadowIntensity values of themes, in hundredths: none, the presets' 0.15
\* and 0.2, a half and full
ShadowIntensities == {0, 15, 20, 50, 100}

\* the theme with intensity i built from the named theme
ThemeWith(name, i) == createCustomTheme(ThemeRecord(name), [shadowIntensity |-> i])

\* Math.round(factor * intensity), intensity given in hundredths
RoundTimes(factor, intensity) == (factor * intensity * 2 + Hundredths) \div (2 * Hundredths)

Px(n) == ToString(n) \o "px"

\* `${offset}px ${offset}px ${blur}px ${spread}px ${colour}`, with the sign prefix
\* the template puts before the two offsets
ShadowPart(sign, offset, blur, spread, colour) ==
    sign \o Px(offset) \o " " \o sign \o Px(offset) \o " " \o Px(blur) \o " "
         \o Px(spread) \o " " \o colour

\* the two-shadow template shared by the raised and inset cases
ShadowPair(prefix, theme) ==
    LET offset == RoundTimes(8, theme.shadowIntensity)
        blur == RoundTimes(16, theme.shadowIntensity)
        spread == RoundTimes(-2, theme.shadowIntensity)
    IN  prefix \o ShadowPart("", offset, blur, spread, theme.colors.shadow.dark)
            \o ", " \o prefix \o ShadowPart("-", offset, blur, spread, theme.colors.shadow.light)

\* utils: createNeumorphicShadow(variant, theme.shadowIntensity, theme)
createNeumorphicShadow(variant, theme) ==
    CASE variant = "raised" -> ShadowPair("", theme)
      [] variant = "inset" -> ShadowPair("inset ", theme)
      [] variant = "flat" -> "0px 0px 0px 0px transparent"

\* BaseComponent.createShadowStyle(variant) of an instance whose _theme is `theme`
createShadowStyle(variant, theme) ==
    CASE variant = "raised" -> ShadowPair("", theme)
      [] variant = "inset" -> ShadowPair("inset ", theme)
      [] variant = "flat" -> "none"

NoShadows == [utility |-> "", component |-> ""]

IdleShadow ==
    /\ shVariant = "raised"
    /\ shTheme = "lightTheme"
    /\ shIntensity = 15
    /\ shOut = NoShadows
    /\ shPc = "idle"

IdleMore == IdleNotify /\ IdleSubscribers /\ IdleCustom /\ IdleShadow

IdleExtra == IdleManager /\ IdleAdapter /\ IdleAuto /\ IdleMore

\* ------------------------------------------------ validation specification
IdleValidate ==
    /\ value = <<>>
    /\ ruleSet = CHOOSE r \in FunctionRuleSets : TRUE
    /\ result = NoResult
    /\ vpc = "idle"

InitValidate ==
    /\ value = <<>>
    /\ ruleSet \in RuleSets
    /\ result = NoResult
    /\ vpc = "input"
    /\ IdleStrength
    /\ IdleLife
    /\ IdleExtra

\* the caller types one more character of the value
TypeChar ==
    /\ vpc = "input"
    /\ Len(value) < MaxLen
    /\ \E c \in ValueAlphabet : value' = Append(value, c)
    /\ UNCHANGED <<ruleSet, result, vpc, strengthVars, lifeVars, extraVars>>

\* the caller calls validateValue(value, ruleSet)
CallValidateValue ==
    /\ vpc = "input"
    /\ result' = validateValue(value, ruleSet)
    /\ vpc' = "done"
    /\ UNCHANGED <<value, ruleSet, strengthVars, lifeVars, extraVars>>

NextValidate == TypeChar \/ CallValidateValue

SpecValidate == InitValidate /\ [][NextValidate]_vars

\* -------------------------------------------- password-strength specification
InitStrength ==
    /\ password = <<>>
    /\ strength = NoStrength
    /\ spc = "input"
    /\ IdleValidate
    /\ IdleLife
    /\ IdleExtra

\* the caller types one more character of the password
TypePasswordChar ==
    /\ spc = "input"
    /\ Len(password) < MaxPasswordLen
    /\ \E c \in PasswordAlphabet : password' = Append(password, c)
    /\ UNCHANGED <<strength, spc, validateVars, lifeVars, extraVars>>

\* the caller calls validatePasswordStrength(password)
CallValidatePasswordStrength ==
    /\ spc = "input"
    /\ strength' = validatePasswordStrength(password)
    /\ spc' = "done"
    /\ UNCHANGED <<password, validateVars, lifeVars, extraVars>>

NextStrength == TypePasswordChar \/ CallValidatePasswordStrength

SpecStrength == InitStrength /\ [][NextStrength]_vars

\* ------------------------------------------- validation-manager specification
\* globalValidationManager right after the module is loaded: both maps empty.
InitManager ==
    /\ mValue \in [Elements -> ManagerValues]
    /\ validationState = [e \in Elements |-> Null]
    /\ errorElements = [e \in Elements |-> Null]
    /\ mClasses = [e \in Elements |-> {}]
    /\ mgrOp = NoManagerOp
    /\ IdleValidate
    /\ IdleStrength
    /\ IdleLife
    /\ IdleAdapter
    /\ IdleAuto
    /\ IdleMore

\* the user changes the value of an element
TypeIntoElement ==
    /\ \E e \in Elements, v \in ManagerValues :
        /\ mValue' = [mValue EXCEPT ![e] = v]
        /\ mgrOp' = [op |-> "input", el |-> e, config |-> Null]
    /\ UNCHANGED <<validationState, errorElements, mClasses>>
    /\ UNCHANGED otherThanManager

\* a caller runs globalValidationManager.validate(element, config)
ManagerValidate ==
    /\ \E e \in Elements, config \in ManagerConfigs :
        LET m == ValidationManager_validate(Manager, e, config, mValue[e])
        IN  /\ validationState' = m.validationState
            /\ errorElements' = m.errorElements
            /\ mClasses' = m.classes
            /\ mgrOp' = [op |-> "validate", el |-> e, config |-> Some(config)]
    /\ UNCHANGED <<mValue, otherThanManager>>

\* a caller runs globalValidationManager.clearValidation(element)
ManagerClearValidation ==
    /\ \E e \in Elements :
        LET m == ValidationManager_clearValidation(Manager, e)
        IN  /\ validationState' = m.validationState
            /\ errorElements' = m.errorElements
            /\ mClasses' = m.classes
            /\ mgrOp' = [op |-> "clearValidation", el |-> e, config |-> Null]
    /\ UNCHANGED <<mValue, otherThanManager>>

\* a caller runs globalValidationManager.destroy()
ManagerDestroy ==
    /\ LET m == ValidationManager_destroy(Manager)
       IN  /\ validationState' = m.validationState
           /\ errorElements' = m.errorElements
           /\ mClasses' = m.classes
           /\ mgrOp' = [op |-> "destroy", el |-> "none", config |-> Null]
    /\ UNCHANGED <<mValue, otherThanManager>>

NextManager == TypeIntoElement \/ ManagerValidate \/ ManagerClearValidation \/ ManagerDestroy

SpecManager == InitManager /\ [][NextManager]_vars

\* ------------------------------------------------------ adapter specification
\* A caller has wrapped a schema with one of the adapters; the schema's
\* behaviour on the value about to be validated is one of SchemaBehaviours.
InitAdapter ==
    /\ adapter \in Adapters
    /\ schema \in SchemaBehaviours
    /\ adapterOut = NoOutput
    /\ apc = "input"
    /\ IdleValidate
    /\ IdleStrength
    /\ IdleLife
    /\ IdleManager
    /\ IdleAuto
    /\ IdleMore

\* the widget (or the caller) calls the adapter-produced function
CallAdapter ==
    /\ apc = "input"
    /\ adapterOut' = CallAdapted(adapter, schema)
    /\ apc' = "done"
    /\ UNCHANGED <<adapter, schema, otherThanAdapter>>

NextAdapter == CallAdapter

SpecAdapter == InitAdapter /\ [][NextAdapter]_vars

\* ----------------------------------------------------- autoInit specification
\* A page whose author marked some elements with data-np, before np.autoInit().
InitAuto ==
    /\ page \in Pages
    /\ autoResult = NoAutoResult
    /\ autoPc = "ready"
    /\ IdleValidate
    /\ IdleStrength
    /\ IdleLife
    /\ IdleManager
    /\ IdleAdapter
    /\ IdleMore

\* the page calls np.autoInit()
CallAutoInit ==
    /\ autoPc = "ready"
    /\ autoResult' = autoInit(page, currentTheme)
    /\ autoPc' = "done"
    /\ UNCHANGED <<page, otherThanAuto>>

NextAuto == CallAutoInit

SpecAuto == InitAuto /\ [][NextAuto]_vars

\* ------------------------------------------------- lifecycle specification
\* The page holds one element; the themes module has been loaded, so
\* autoDetectTheme() has already set the light or the dark preset.
Init ==
    /\ phase = "none"
    /\ widget = "none"
    /\ el \in {FreshElement(k) : k \in ElementKinds}
    /\ attached = {}
    /\ docNodes = {}
    /\ currentTheme \in {themes(p) : p \in ThemePresets}
    /\ rootVars = currentTheme
    /\ _config = NoConfig
    /\ _theme = "none"
    /\ _listeners = <<>>
    /\ _destroyed = FALSE
    /\ destroyEvents = 0
    /\ lastOp = NoOp
    /\ IdleValidate
    /\ IdleStrength
    /\ IdleExtra

\* the caller runs `new Widget(element, config)`
Construct ==
    /\ phase = "none"
    /\ \E w \in Widgets, config \in Configs :
        LET s == Constructor(This, w, config, currentTheme)
        IN  /\ widget' = w
            /\ el' = s.el
            /\ attached' = s.attached
            /\ lastOp' = [op |-> "construct", config |-> config, theme |-> "", outcome |-> s.outcome]
            /\ IF s.outcome = "ok"
               THEN /\ phase' = "live"
                    /\ _config' = s.config
                    /\ _theme' = s.theme
                    /\ _listeners' = s.listeners
               ELSE /\ phase' = "failed"
                    /\ UNCHANGED <<_config, _theme, _listeners>>
    /\ UNCHANGED <<docNodes, rootVars, _destroyed, currentTheme, destroyEvents>>
    /\ UNCHANGED <<validateVars, strengthVars, extraVars>>

\* the caller runs instance.update(newConfig)
Update ==
    /\ phase = "live"
    /\ \E newConfig \in Configs :
        LET s == update(This, newConfig, currentTheme)
        IN  /\ el' = s.el
            /\ _config' = s.config
            /\ _theme' = s.theme
            /\ lastOp' = [op |-> "update", config |-> newConfig, theme |-> "", outcome |-> s.outcome]
    /\ UNCHANGED <<phase, widget, attached, docNodes, rootVars, _listeners, _destroyed>>
    /\ UNCHANGED <<currentTheme, destroyEvents, validateVars, strengthVars, extraVars>>

\* the caller runs instance.destroy()
Destroy ==
    /\ phase = "live"
    /\ LET s == destroy(This)
       IN  /\ el' = s.el
           /\ attached' = s.attached
           /\ _listeners' = s.listeners
           /\ _destroyed' = s.destroyed
           /\ destroyEvents' = s.events
           /\ lastOp' = [op |-> "destroy", config |-> NoConfig, theme |-> "", outcome |-> s.outcome]
    /\ UNCHANGED <<phase, widget, docNodes, rootVars, _config, _theme, currentTheme>>
    /\ UNCHANGED <<validateVars, strengthVars, extraVars>>

\* someone runs setTheme(theme); the np:theme-change event reaches the
\* instance's handler if it is still registered on window
SetTheme ==
    /\ \E theme \in ThemeValues :
        LET cur == IF IsString(theme) THEN themes(theme) ELSE theme
            heard == \E l \in attached : l.target = "window" /\ l.event = "np:theme-change"
            s == IF heard THEN ThemeChangeHandler(This, cur) ELSE This
        IN  /\ currentTheme' = cur
            /\ rootVars' = cur
            /\ el' = s.el
            /\ _theme' = s.theme
            /\ lastOp' = [op |-> "setTheme", config |-> NoConfig, theme |-> theme, outcome |-> "ok"]
    /\ UNCHANGED <<phase, widget, attached, docNodes, _config, _listeners, _destroyed>>
    /\ UNCHANGED <<destroyEvents, validateVars, strengthVars, extraVars>>

Next == Construct \/ Update \/ Destroy \/ SetTheme

Spec == Init /\ [][Next]_vars

\* ------------------------------------------- destroy-notification specification
\* One div on the page, on which the page has registered its own listener for
\* np:destroy before any component is created on it.
InitNotify ==
    /\ phase = "none"
    /\ widget = "none"
    /\ el = FreshElement("div")
    /\ attached = {}
    /\ docNodes = {}
    /\ currentTheme = themes("light")
    /\ rootVars = currentTheme
    /\ _config = NoConfig
    /\ _theme = "none"
    /\ _listeners = <<>>
    /\ _destroyed = FALSE
    /\ destroyEvents = 0
    /\ lastOp = NoOp
    /\ destroyHandler \in DestroyHandlers
    /\ destroyLog = <<>>
    /\ IdleValidate
    /\ IdleStrength
    /\ IdleManager
    /\ IdleAdapter
    /\ IdleAuto
    /\ IdleSubscribers
    /\ IdleCustom
    /\ IdleShadow

\* the caller runs instance.destroy(); the page's listener hears np:destroy
DestroyNotified ==
    /\ phase = "live"
    /\ LET r == destroyNotifying(This, <<>>, destroyHandler, MaxStackDepth, currentTheme)
       IN  /\ el' = r.s.el
           /\ attached' = r.s.attached
           /\ _listeners' = r.s.listeners
           /\ _config' = r.s.config
           /\ _theme' = r.s.theme
           /\ _destroyed' = r.s.destroyed
           /\ destroyEvents' = r.s.events
           /\ destroyLog' = r.log
           /\ lastOp' = [op |-> "destroy", config |-> NoConfig, theme |-> "", outcome |-> r.s.outcome]
    /\ UNCHANGED <<phase, widget, docNodes, rootVars, currentTheme, destroyHandler>>
    /\ UNCHANGED <<validateVars, strengthVars, managerVars, adapterVars, autoVars, subVars>>
    /\ UNCHANGED <<customVars, shadowVars>>

NextNotify == Construct \/ Update \/ DestroyNotified

SpecNotify == InitNotify /\ [][NextNotify]_vars

\* --------------------------------------------- theme-subscriber specification
\* The themes module is loaded; no component exists yet.
InitSubscribers ==
    /\ currentTheme \in {themes(p) : p \in ThemePresets}
    /\ rootVars = currentTheme
    /\ instances = [i \in InstanceIds |-> NotCreated]
    /\ windowListeners = <<>>
    /\ delivered = <<>>
    /\ lastOp = NoOp
    /\ phase = "idle"
    /\ widget = "none"
    /\ el = FreshElement("div")
    /\ attached = {}
    /\ docNodes = {}
    /\ _config = NoConfig
    /\ _theme = "none"
    /\ _listeners = <<>>
    /\ _destroyed = FALSE
    /\ destroyEvents = 0
    /\ IdleValidate
    /\ IdleStrength
    /\ IdleManager
    /\ IdleAdapter
    /\ IdleAuto
    /\ IdleNotify
    /\ IdleCustom
    /\ IdleShadow

\* what the subscriber actions leave alone
besidesSubscribers ==
    <<phase, widget, domVars, instanceVars, destroyEvents, validateVars, strengthVars,
      managerVars, adapterVars, autoVars, notifyVars, customVars, shadowVars>>

\* the page creates one more component; its bindEvents subscribes it on window
CreateSubscriber ==
    /\ \E i \in InstanceIds, theme \in SubscriberThemes :
        /\ instances[i] = NotCreated
        /\ LET s == Constructor([NotCreated EXCEPT !.outcome = "ok"], "Custom",
                                [NoConfig EXCEPT !.theme = theme], currentTheme)
           IN  /\ instances' = [instances EXCEPT ![i] = s]
               /\ windowListeners' =
                    IF \E l \in s.attached : l.target = "window" /\ l.event = "np:theme-change"
                    THEN Append(windowListeners, i) ELSE windowListeners
        /\ lastOp' = [op |-> "construct", config |-> [NoConfig EXCEPT !.theme = theme],
                      theme |-> "", outcome |-> "ok"]
    /\ UNCHANGED <<currentTheme, delivered, besidesSubscribers>>

\* the page destroys one of its components
DestroySubscriber ==
    /\ \E i \in InstanceIds :
        /\ Live(instances[i])
        /\ instances' = [instances EXCEPT ![i] = destroy(@)]
        /\ windowListeners' = Without(windowListeners, i)
        /\ lastOp' = [op |-> "destroy", config |-> NoConfig, theme |-> "", outcome |-> "ok"]
    /\ UNCHANGED <<currentTheme, delivered, besidesSubscribers>>

\* someone runs setTheme(theme)
SetThemeAll ==
    /\ \E theme \in ThemeValues :
        LET m == setTheme(ThemesModule, theme, windowListeners)
        IN  /\ currentTheme' = m.currentTheme
            /\ instances' = m.instances
            /\ delivered' = m.delivered
            /\ lastOp' = [op |-> "setTheme", config |-> NoConfig, theme |-> theme, outcome |-> "ok"]
            /\ UNCHANGED <<phase, widget, el, attached, docNodes, instanceVars, destroyEvents>>
            /\ rootVars' = m.rootVars
    /\ UNCHANGED <<windowListeners, validateVars, strengthVars, managerVars, adapterVars,
                   autoVars, notifyVars, customVars, shadowVars>>

NextSubscribers == CreateSubscriber \/ DestroySubscriber \/ SetThemeAll

SpecSubscribers == InitSubscribers /\ [][NextSubscribers]_vars

\* ---------------------------------------------- createCustomTheme specification
\* every part of the model other than the themes module's current theme is idle
IdleButTheme ==
    /\ rootVars = currentTheme
    /\ phase = "idle"
    /\ widget = "none"
    /\ el = FreshElement("div")
    /\ attached = {}
    /\ docNodes = {}
    /\ _config = NoConfig
    /\ _theme = "none"
    /\ _listeners = <<>>
    /\ _destroyed = FALSE
    /\ destroyEvents = 0
    /\ lastOp = NoOp
    /\ IdleValidate
    /\ IdleStrength
    /\ IdleManager
    /\ IdleAdapter
    /\ IdleAuto
    /\ IdleNotify
    /\ IdleSubscribers

\* The current theme is one of the presets or an object set earlier with
\* setTheme; a caller is about to call createCustomTheme(overrides).
InitCustom ==
    /\ currentTheme \in ThemeObjects
    /\ overrides \in ThemeOverrides
    /\ customOut = EmptyObject
    /\ ctPc = "input"
    /\ IdleButTheme
    /\ IdleShadow

\* the caller runs createCustomTheme(overrides)
CallCreateCustomTheme ==
    /\ ctPc = "input"
    /\ customOut' = createCustomTheme(ThemeRecord(currentTheme), overrides)
    /\ ctPc' = "done"
    /\ UNCHANGED <<overrides, validateVars, strengthVars, lifeVars, managerVars, adapterVars,
                   autoVars, notifyVars, subVars, shadowVars>>

NextCustom == CallCreateCustomTheme

SpecCustom == InitCustom /\ [][NextCustom]_vars

\* ------------------------------------------------------- shadow specification
\* A component whose _theme is shTheme is about to compute the shadow of a
\* variant, and a caller the same shadow with the shared utility.
InitShadow ==
    /\ shVariant \in ShadowVariants
    /\ shTheme \in ThemeObjects
    /\ shIntensity \in ShadowIntensities
    /\ shOut = NoShadows
    /\ shPc = "input"
    /\ currentTheme \in {themes(p) : p \in ThemePresets}
    /\ IdleButTheme
    /\ IdleCustom

\* createNeumorphicShadow(variant, theme.shadowIntensity, theme) and
\* createShadowStyle(variant) are both evaluated
CallShadows ==
    /\ shPc = "input"
    /\ shOut' = [utility |-> createNeumorphicShadow(shVariant, ThemeWith(shTheme, shIntensity)),
                 component |-> createShadowStyle(shVariant, ThemeWith(shTheme, shIntensity))]
    /\ shPc' = "done"
    /\ UNCHANGED <<shVariant, shTheme, shIntensity, validateVars, strengthVars, lifeVars, managerVars,
                   adapterVars, autoVars, notifyVars, subVars, customVars>>

\* the caller picks another variant or theme for the next comparison
NextShadowInput ==
    /\ shPc = "done"
    /\ shVariant' \in ShadowVariants
    /\ shTheme' \in ThemeObjects
    /\ shIntensity' \in ShadowIntensities
    /\ shOut' = NoShadows
    /\ shPc' = "input"
    /\ UNCHANGED <<validateVars, strengthVars, lifeVars, managerVars,
                   adapterVars, autoVars, notifyVars, subVars, customVars>>

NextShadow == CallShadows \/ NextShadowInput

SpecShadow == InitShadow /\ [][NextShadow]_vars

\* ================================================================== claims
AllWhitespace(s) == \A k \in 1..Len(s) : s[k] \in Whitespace

\* C1: with a structured rule set whose `required` is not set, an empty or
\* all-whitespace value validates as isValid = TRUE with no errors, and no
\* validator (email, minLength, maxLength, pattern, custom) is evaluated.
C1_OptionalEmptyValid ==
    (vpc = "done" /\ ruleSet.kind = "config" /\ ~ruleSet.required /\ AllWhitespace(value))
        => (result.isValid /\ result.errors = <<>> /\ result.calls = <<>>)

\* C1 witness: an all-whitespace value validated against a full optional rule set.
C1_Witness ==
    /\ vpc = "done" /\ ruleSet.kind = "config" /\ ~ruleSet.required
    /\ value = <<" ", " ">>
    /\ ruleSet.email /\ ruleSet.minLength # Null /\ ruleSet.maxLength # Null
    /\ ruleSet.pattern # Null /\ ruleSet.custom # <<>>
    /\ result.isValid

\* C2: with required = TRUE and a value that is empty after trimming, the result
\* is invalid and its errors are exactly the required message; no other
\* validator runs.
C2_RequiredEmptyOnlyRequiredError ==
    (vpc = "done" /\ ruleSet.kind = "config" /\ ruleSet.required /\ AllWhitespace(value))
        => /\ ~result.isValid
           /\ result.errors = <<"This field is required">>
           /\ result.calls = <<"required">>

\* C2 witness: a whitespace-only value against required + email + minLength + pattern.
C2_Witness ==
    /\ vpc = "done" /\ ruleSet.kind = "config" /\ ruleSet.required
    /\ value = <<" ">>
    /\ ruleSet.email /\ ruleSet.minLength # Null /\ ruleSet.pattern # Null
    /\ ruleSet.custom # <<>>
    /\ result.errors = <<"This field is required">>

\* the rules a structured rule set configures, in the claimed order
ConfiguredRules(config) ==
    (IF config.email THEN <<"email">> ELSE <<>>)
    \o (IF config.minLength # Null THEN <<"minLength">> ELSE <<>>)
    \o (IF config.maxLength # Null THEN <<"maxLength">> ELSE <<>>)
    \o (IF config.pattern # Null THEN <<"pattern">> ELSE <<>>)
    \o config.custom

\* what one rule answers for a value: its message, or Null when it passes
RuleVerdict(rule, v, config) ==
    CASE rule = "email"     -> validators_email(v)
      [] rule = "minLength" -> validators_minLength(config.minLength[1], v)
      [] rule = "maxLength" -> validators_maxLength(config.maxLength[1], v)
      [] rule = "pattern"   -> validators_pattern(config.pattern[1], v)
      [] OTHER              -> CallFunction(rule, v)

\* the messages of the failing rules (those answering a non-empty message), in order
RECURSIVE FailingMessages(_, _, _)
FailingMessages(rules, v, config) ==
    IF rules = <<>> THEN <<>>
    ELSE (IF Truthy(RuleVerdict(Head(rules), v, config))
          THEN <<RuleVerdict(Head(rules), v, config)[1]>> ELSE <<>>)
         \o FailingMessages(Tail(rules), v, config)

AccumulatesAllFailures ==
    /\ result.calls = (IF ruleSet.required THEN <<"required">> ELSE <<>>)
                      \o ConfiguredRules(ruleSet)
    /\ result.errors = FailingMessages(ConfiguredRules(ruleSet), value, ruleSet)
    /\ result.isValid <=> (result.errors = <<>>)

C4_FunctionReturnIsSoleError ==
    (vpc = "done" /\ ruleSet.kind = "function")
        => /\ result.calls = <<ruleSet.fn>>
           /\ IF CallFunction(ruleSet.fn, value) # Null
              THEN ~result.isValid
                   /\ result.errors = <<CallFunction(ruleSet.fn, value)[1]>>
              ELSE result.isValid /\ result.errors = <<>>

\* the five criteria of the password score, in the order the feedback lists them
Criteria ==
    << [name |-> "length",    message |-> "Use at least 8 characters"],
       [name |-> "uppercase", message |-> "Add uppercase letters"],
       [name |-> "lowercase", message |-> "Add lowercase letters"],
       [name |-> "digit",     message |-> "Add numbers"],
       [name |-> "special",   message |-> "Add special characters"] >>

Met(name, p) ==
    CASE name = "length"    -> Len(p) >= 8
      [] name = "uppercase" -> \E k \in 1..Len(p) : p[k] \in UpperCase
      [] name = "lowercase" -> \E k \in 1..Len(p) : p[k] \in LowerCase
      [] name = "digit"     -> \E k \in 1..Len(p) : p[k] \in Digits
      [] name = "special"   ->
            \E k \in 1..Len(p) : p[k] \notin (UpperCase \cup LowerCase \cup Digits)

MetCount(p) == Cardinality({k \in 1..Len(Criteria) : Met(Criteria[k].name, p)})

ClaimedLabel(score) ==
    CASE score \in 0..2 -> "weak"
      [] score = 3      -> "fair"
      [] score = 4      -> "good"
      [] score = 5      -> "strong"

\* C5: the score is the number of criteria met among length >= 8, uppercase,
\* lowercase, digit and non-alphanumeric; the label depends on the score only:
\* 0..2 weak, 3 fair, 4 good, 5 strong.
C5_ScoreCountsCriteria ==
    (spc = "done")
        => /\ strength.score = MetCount(password)
           /\ strength.strength = ClaimedLabel(strength.score)

\* C5 witness: a password meeting all five criteria is labelled strong.
C5_Witness ==
    spc = "done" /\ MetCount(password) = 5 /\ strength.strength = "strong"

UnmetCriterion(c) == ~Met(c.name, password)
RECURSIVE MapMessages(_)
MapMessages(cs) == IF cs = <<>> THEN <<>> ELSE <<Head(cs).message>> \o MapMessages(Tail(cs))

\* C6: the feedback lists one entry per unmet criterion and none for a met one,
\* in the order length, uppercase, lowercase, digit, special; so its length is
\* five minus the score.
C6_FeedbackNamesMissingCriteria ==
    (spc = "done")
        => /\ strength.feedback = MapMessages(SelectSeq(Criteria, UnmetCriterion))
           /\ Len(strength.feedback) = 5 - strength.score

\* C6 witness: "A1" misses length, lowercase and special, reported in that order.
C6_Witness ==
    /\ spc = "done" /\ password = <<"A", "1">>
    /\ strength.feedback = << "Use at least 8 characters", "Add lowercase letters",
                              "Add special characters" >>

\* everything a lifecycle call could touch, apart from the record of the call itself
beyondTheCall == <<phase, widget, domVars, instanceVars, currentTheme, destroyEvents>>

\* C7: destroy() is idempotent: a call on an instance that is already
\* destroyed raises nothing and changes nothing -- listeners, classes, DOM and
\* the destroyed flag stay as the first call left them, and no further
\* destroy notification is dispatched.
C7_DestroyIsIdempotent ==
    [][ (_destroyed /\ lastOp'.op = "destroy")
            => (lastOp'.outcome = "returned early" /\ UNCHANGED beyondTheCall) ]_vars

\* C7 witness: destroy() called again on a destroyed instance; still exactly one
\* destroy notification, no listener and no component class.
C7_Witness ==
    /\ phase = "live" /\ _destroyed
    /\ lastOp.op = "destroy" /\ lastOp.outcome = "returned early"
    /\ destroyEvents = 1
    /\ attached = {} /\ _listeners = <<>>
    /\ "np-component" \notin el.classes

\* C8: update(partial) on a destroyed instance is a no-op that only emits a
\* warning: config, resolved theme, element classes/attributes and widget
\* state are all unchanged.
C8_UpdateAfterDestroyIsNoOp ==
    [][ (_destroyed /\ lastOp'.op = "update")
            => (lastOp'.outcome = "warned" /\ UNCHANGED beyondTheCall) ]_vars

\* C8 witness: a destroyed instance was asked to change all three keys and
\* none of them took effect.
C8_Witness ==
    /\ phase = "live" /\ _destroyed
    /\ lastOp.op = "update" /\ lastOp.outcome = "warned"
    /\ lastOp.config = [theme |-> Some("customTheme"), className |-> Some("y"), disabled |-> Some(TRUE)]
    /\ _config.className # Some("y") /\ "y" \notin el.classes
    /\ _config.disabled # Some(TRUE) /\ "disabled" \notin el.attrs
    /\ _config.theme # Some("customTheme") /\ _theme # "customTheme"

\* C9: update(partial) on a live instance changes only the keys supplied:
\* every omitted key keeps its value and the state tied to it -- an omitted
\* className stays on the element, an omitted disabled leaves the disabled
\* attributes and class alone, an omitted theme leaves the resolved theme and
\* the painted styles alone.
C9_PartialUpdateKeepsOmittedKeys ==
    [][ (phase = "live" /\ ~_destroyed /\ lastOp'.op = "update")
            => /\ \A k \in DOMAIN _config :
                    lastOp'.config[k] = Null => _config'[k] = _config[k]
               /\ lastOp'.config.className = Null
                    => \A c \in ClassNames :
                          (_config.className = Some(c) /\ c \in el.classes) => c \in el'.classes
               /\ lastOp'.config.disabled = Null
                    => /\ el'.attrs = el.attrs
                       /\ ("np-disabled" \in el'.classes) = ("np-disabled" \in el.classes)
               /\ lastOp'.config.theme = Null
                    => (_theme' = _theme /\ el'.style = el.style) ]_vars

\* the element kinds each widget's contract rejects
WrongKind(w, k) ==
    \/ k = "object"
    \/ w \in {"Input", "Password"} /\ k \notin {"input:text", "input:checkbox", "input:radio"}
    \/ w = "Textarea" /\ k # "textarea"
    \/ w = "Button" /\ k # "button"
    \/ w = "Toggle" /\ k \notin {"input:checkbox", "input:radio"}

\* C10: constructing a widget with an element of the wrong kind (Input or
\* Password: not an HTMLInputElement; Textarea: not a textarea; Button: not a
\* button; Toggle: not a checkbox/radio input; any widget: not a DOM element)
\* throws synchronously, and the element and the document are unmodified: no
\* class, style, listener or auxiliary node is added.
C10_WrongKindThrowsUnmodified ==
    [][ (lastOp'.op = "construct" /\ WrongKind(widget', el.kind))
            => /\ lastOp'.outcome \in {"Error: wrong element kind", "Error: Invalid element"}
               /\ phase' = "failed"
               /\ UNCHANGED <<domVars, instanceVars>> ]_vars

\* C10 witness: new Toggle(<input type=text>) threw and the element is as it was.
C10_Witness ==
    /\ phase = "failed" /\ widget = "Toggle"
    /\ lastOp.op = "construct" /\ lastOp.outcome = "Error: wrong element kind"
    /\ el = FreshElement("input:text")
    /\ attached = {} /\ docNodes = {}

\* the widget-specific keys each widget's constructor defaults
WidgetDefaults(w) ==
    CASE w = "Card" -> {"variant", "size"}
      [] w = "Input" -> {"validateOn", "showValidation"}
      [] w = "Password" -> {"validateOn", "showValidation", "showToggle", "togglePosition",
                            "strengthIndicator"}
      [] OTHER -> {}

\* C11: the configuration reported by the `config` accessor is fully
\* defaulted: constructing a Card, Input or Password on a suitable element
\* with an empty or partial config yields an instance whose reported config
\* contains every widget-specific default, and each update() leaves the
\* reported config equal to the previous one overridden by the update.
C11_ConfigIsFullyDefaulted ==
    [][ /\ (lastOp'.op = "construct" /\ widget' \in {"Card", "Input", "Password"}
                /\ ~WrongKind(widget', el.kind))
            => (phase' = "live" /\ WidgetDefaults(widget') \subseteq get_config(This'))
        /\ (phase = "live" /\ ~_destroyed /\ lastOp'.op = "update")
            => _config' = Spread(_config, lastOp'.config) ]_vars

\* C12: after setTheme(t) returns, every live (constructed, not destroyed)
\* instance has been re-painted with t -- its background colour is t's surface
\* colour -- whether it was constructed with no theme key or with a preset
\* name, and without any per-instance call.
C12_SetThemeRepaintsLiveInstances ==
    [][ (lastOp'.op = "setTheme" /\ phase = "live" /\ ~_destroyed
            /\ (_config.theme = Null \/ IsString(_config.theme[1])))
            => el'.style.surface = currentTheme' ]_vars

\* the theme a `theme` config value stands for, given the current global theme
ResolvedTheme(theme, global) ==
    IF theme = Null THEN global
    ELSE IF theme[1] \in ThemePresets THEN themes(theme[1])
    ELSE theme[1]

\* C13: theme resolution at construction and in update(): a theme given as an
\* object is used as is; a theme given as a preset name resolves to that named
\* preset even when the current global theme is a different one; an absent
\* theme (at construction) resolves to the current global theme.
C13_ThemeResolution ==
    [][ /\ (lastOp'.op = "construct" /\ phase' = "live")
            => _theme' = ResolvedTheme(lastOp'.config.theme, currentTheme)
        /\ (lastOp'.op = "update" /\ phase = "live" /\ ~_destroyed
                /\ lastOp'.config.theme # Null)
            => _theme' = ResolvedTheme(lastOp'.config.theme, currentTheme) ]_vars

\* a step in which `new w(element, config)` is run on an element of one of the kinds
ConstructsOn(w, kinds) ==
    lastOp'.op = "construct" /\ widget' = w /\ el.kind \in kinds

InputType(k) ==
    CASE k = "input:text" -> "text"
      [] k = "input:checkbox" -> "checkbox"
      [] k = "input:radio" -> "radio"
      [] OTHER -> "none"

ManagerStateFollowsCalls ==
    /\ \A e \in Elements : ValidationManager_getValidationState(Manager, e) = Null
    /\ [][ \A e \in Elements :
            LET before == ValidationManager_getValidationState(Manager, e)
                after  == ValidationManager_getValidationState(Manager', e)
            IN  CASE mgrOp'.op = "validate" /\ mgrOp'.el = e ->
                        after = Some(ValidationResult(validateValue(mValue[e], mgrOp'.config[1])))
                  [] mgrOp'.op = "clearValidation" /\ mgrOp'.el = e -> after = Null
                  [] mgrOp'.op = "destroy" -> after = Null
                  [] OTHER -> after = before ]_vars

\* e1 was validated and found invalid, then cleared -- its error node exists
\* but is hidden and its state is null -- while e2 still holds the invalid
\* result stored by its last validate().
ManagerClearedAndStored ==
    /\ mgrOp = [op |-> "clearValidation", el |-> "e1", config |-> Null]
    /\ errorElements["e1"] = Some([display |-> "none", text |-> ""])
    /\ ValidationManager_getValidationState(Manager, "e1") = Null
    /\ ValidationManager_getValidationState(Manager, "e2")
            = Some([isValid |-> FALSE, errors |-> <<"This field is required">>])

\* the element kinds a widget's constructor accepts
ValidKinds(w) == {k \in ElementKinds : ~WrongKind(w, k)}

IsMessage(m) == m # Null /\ m[1] # ""

\* C25: adapter exceptions never reach widget code: for every adapter-produced
\* validation function and every behaviour of the underlying schema --
\* including a call that throws and an error object without a structured
\* message list -- the call returns (or resolves to) null / a valid result
\* when the schema accepts, and otherwise a message or an invalid result
\* carrying at least one message ("Invalid value" when the schema supplied
\* none); it never throws.
C25_AdaptersNeverThrow ==
    apc = "done" =>
        /\ adapterOut.tag # "threw"
        /\ schema.kind = "accepts" =>
                adapterOut \in {RetNull, RetResult(TRUE, <<>>)}
        /\ schema.kind # "accepts" =>
                \/ adapterOut.tag = "string" /\ adapterOut.text # ""
                \/ /\ adapterOut.tag = "result"
                   /\ ~adapterOut.isValid
                   /\ adapterOut.errors # <<>>
                   /\ \A i \in 1..Len(adapterOut.errors) : IsMessage(adapterOut.errors[i])

\* C26: autoInit() visits the marked elements in document order; for an
\* element whose configuration attribute holds malformed JSON it logs a
\* warning, initializes that element with an empty config, and continues with
\* the remaining elements: once autoInit() has returned, nothing was thrown,
\* every malformed attribute was warned about, and every marked element with
\* a known component name -- malformed attribute or not -- has its instance.
C26_AutoInitSurvivesMalformedJson ==
    autoPc = "done" =>
        /\ autoResult.thrown = Null
        /\ \A i \in 1..Len(page) :
            /\ page[i].configAttr = "malformed" => i \in autoResult.warned
            /\ page[i].component # "chip" => i \in autoResult.initialised

\* the library's own widgets (Custom is a caller's subclass of BaseComponent)
LibraryWidgets == Widgets \ {"Custom"}

\* C30: construction order: when a widget's init() and bindEvents() run, the
\* widget-specific configuration has already been merged over the widget's
\* defaults, so construction with an empty or partial config completes without
\* error and the initial styling and listener binding use the defaulted
\* values: a Card gets the raised/md classes, an Input binds blur validation.
C30_ConstructionOrder ==
    [][ \A w \in LibraryWidgets :
            ConstructsOn(w, ValidKinds(w))
                => /\ lastOp'.outcome = "ok"
                   /\ phase' = "live"
                   /\ w = "Card" => {"np-card-raised", "np-card-md"} \subseteq el'.classes
                   /\ w = "Input" => \E l \in attached' : l.event = "blur" ]_vars

\* a destroy() step that found the instance not yet destroyed
TearsDown == lastOp'.op = "destroy" /\ ~_destroyed

\* C31: within one destroy() call the steps happen in this order: all recorded
\* listeners are unregistered, the base and custom classes are stripped, the
\* destroy notification is dispatched on the element, the widget-specific
\* cleanup hook runs, and only then is the instance marked destroyed.  So the
\* notification's listeners see no recorded listener, no base or custom class
\* and an instance not yet marked; the hook runs after the notification and
\* still sees the instance unmarked; and the call ends with it marked.
C31_DestroyOrder ==
    [][ (TearsDown /\ destroyHandler = "none") =>
            /\ Len(destroyLog') = 2
            /\ LET atEvent == destroyLog'[1]
                   atHook  == destroyLog'[2]
               IN  /\ atEvent.at = "event" /\ atHook.at = "hook"
                   /\ atEvent.listeners = 0
                   /\ atEvent.attached = attached \ Range(_listeners)
                   /\ atEvent.classes \cap ({"np-component"} \cup
                            (IF _config.className # Null THEN {_config.className[1]} ELSE {})) = {}
                   /\ atEvent.events = destroyEvents + 1
                   /\ ~atEvent.destroyed
                   /\ atHook.events = destroyEvents + 1
                   /\ ~atHook.destroyed
            /\ _destroyed' ]_vars

\* C31 witness: a live instance built with a custom class has been destroyed:
\* its cleanup hook ran after one notification, with the listener gone.
C31_Witness ==
    /\ lastOp.op = "destroy" /\ lastOp.outcome = "ok"
    /\ destroyHandler = "none"
    /\ _config.className = Some("x")
    /\ Len(destroyLog) = 2
    /\ destroyLog[2].at = "hook" /\ destroyLog[2].events = 1
    /\ _destroyed

\* C38: the destroy notification is emitted exactly once per instance over any
\* sequence of destroy() calls, including a destroy() or update() call made
\* re-entrantly from inside a destroy-notification handler; the outer destroy()
\* still completes with the instance marked destroyed.
C38_DestroyNotifiedOnce ==
    /\ destroyEvents <= 1
    /\ (lastOp.op = "destroy" => (_destroyed /\ destroyEvents = 1))

\* C32: a theme change is delivered synchronously: when setTheme(t) returns,
\* getCurrentTheme() is t and the theme-change handler of every subscribed
\* live instance has already run, in the order the instances subscribed; no
\* handler observes a current theme other than t.
C32_ThemeChangeDelivery ==
    [][ lastOp'.op = "setTheme" =>
            LET t == IF IsString(lastOp'.theme) THEN themes(lastOp'.theme) ELSE lastOp'.theme
            IN  /\ currentTheme' = t
                /\ Len(delivered') = Len(windowListeners)
                /\ \A k \in 1..Len(delivered') :
                        delivered'[k] = [id |-> windowListeners[k], saw |-> t]
                /\ \A i \in InstanceIds :
                        Live(instances[i]) => \E k \in 1..Len(delivered') : delivered'[k].id = i ]_vars

\* C32 witness: i2 subscribed before i1, the theme was then changed to the
\* dark preset, and both handlers have run, i2's first, both seeing dark.
C32_Witness ==
    /\ lastOp.op = "setTheme" /\ lastOp.theme = "dark"
    /\ delivered = << [id |-> "i2", saw |-> "darkTheme"], [id |-> "i1", saw |-> "darkTheme"] >>
    /\ currentTheme = "darkTheme"

\* whether a (partial) theme object has a value at a key path, and that value
Given(o, path) ==
    CASE Len(path) = 1 -> path[1] \in DOMAIN o
      [] Len(path) = 2 -> path[1] \in DOMAIN o /\ path[2] \in DOMAIN o[path[1]]
      [] Len(path) = 3 -> /\ path[1] \in DOMAIN o /\ path[2] \in DOMAIN o[path[1]]
                          /\ path[3] \in DOMAIN o[path[1]][path[2]]
At(o, path) ==
    CASE Len(path) = 1 -> o[path[1]]
      [] Len(path) = 2 -> o[path[1]][path[2]]
      [] Len(path) = 3 -> o[path[1]][path[2]][path[3]]

\* the leaf keys of a theme
LeafPaths ==
    { <<"borderRadius">>, <<"shadowIntensity">>, <<"colors", "surface">>, <<"colors", "text">>,
      <<"colors", "shadow", "light">>, <<"colors", "shadow", "dark">>,
      <<"animation", "duration">>, <<"animation", "easing">> }

\* C34: createCustomTheme(partial) returns a theme in which every key given
\* in partial -- top-level, in colors, in colors.shadow or in animation --
\* overrides the current theme, and every key not given keeps the current
\* theme's value; the current theme itself is not changed.
C34_CreateCustomThemeDeepMerge ==
    [][ ctPc' = "done" =>
            /\ \A path \in LeafPaths :
                    /\ Given(customOut', path)
                    /\ At(customOut', path) =
                            IF Given(overrides, path) THEN At(overrides, path)
                            ELSE At(ThemeRecord(currentTheme), path)
            /\ currentTheme' = currentTheme
            /\ rootVars' = rootVars
            /\ delivered' = delivered ]_vars

\* C34 witness: only colors.shadow.light was overridden on the dark theme; the
\* result keeps the dark theme's colors.shadow.dark and surface.
C34_Witness ==
    /\ ctPc = "done"
    /\ currentTheme = "darkTheme"
    /\ overrides = [colors |-> [shadow |-> [light |-> "#eeeeee"]]]
    /\ customOut.colors.shadow = [light |-> "#eeeeee", dark |-> "#1a202c"]
    /\ customOut.colors.surface = "#2d3748"

\* C35: there is one shadow formula: for every variant in {raised, inset,
\* flat} and every theme, createNeumorphicShadow(variant,
\* theme.shadowIntensity, theme) and the base component's
\* createShadowStyle(variant) under that theme return the same value.
C35_OneShadowFormula ==
    shPc = "done" => shOut.utility = shOut.component
ShadowsAgreeUnlessFlat ==
    shPc = "done" /\ shVariant # "flat" => shOut.utility = shOut.component

RaisedLightShadow ==
    shPc = "done" /\ shVariant = "raised" /\ shTheme = "lightTheme" /\ shIntensity = 15
        => shOut.component = "1px 1px 2px 0px #d1d9e6, -1px -1px 2px 0px #ffffff"

====
